---- MODULE Spec2Model ----
(***************************************************************************)
(* Versioned exam-item store: the in-memory backend (MemoryStorage) and    *)
(* the durable backend (DynamoDBStorage) behind the ItemStorage contract.  *)
(* The durable table is read and written with strongly consistent,         *)
(* unconditional Query / Put requests; every await of the durable backend  *)
(* is a separate step, so concurrent callers interleave between them.      *)
(***************************************************************************)
EXTENDS Integers, Sequences, FiniteSets, TLC

\* ---------------------------------------------------------------- bounds
MaxIds == 2
MaxRecords == 3   \* version records stored, over all ids
MaxClock == 2
MaxLimit == 2

Ids == 1..MaxIds
Procs == {"p1", "p2", "p3"}

\* ------------------------------------------------------------- constants
DefaultLimit == 10
MaxQueryLimit == 100

DynamoKeys == {"version", "latestVersion", "lastModified"}

\* ------------------------------------------------------- object helpers
\* { ...a, ...b }
Spread(a, b) ==
  [k \in (DOMAIN a) \cup (DOMAIN b) |-> IF k \in DOMAIN b THEN b[k] ELSE a[k]]

\* const { version, latestVersion, lastModified, ...itemData } = item
StripKeys(item) == [k \in (DOMAIN item) \ DynamoKeys |-> item[k]]

\* a value for "no object": null / undefined
Null == [null |-> TRUE]

\* the outcome of a call that threw
Thrown == [error |-> TRUE]

\* ------------------------------------------------------------- payloads
PayloadBio ==
  [subject |-> "AP Biology", itemType |-> "multiple-choice", difficulty |-> 3,
   content |-> [question |-> "q1", options |-> <<"A", "B">>,
                correctAnswer |-> "A", explanation |-> "e1"],
   metadata |-> [author |-> "ann", status |-> "draft", tags |-> <<"biology">>],
   securityLevel |-> "standard"]

CreateRequests == {PayloadBio}

UpdContent == [subject |-> "AP Physics", content |-> [question |-> "q2"]]
UpdStatus == [metadata |-> [status |-> "approved"], securityLevel |-> "secure"]
UpdCreated == [metadata |-> [created |-> 0, version |-> 7, lastModified |-> 0]]

UpdateRequests == {UpdContent, UpdStatus, UpdCreated}

\* ----------------------------------------------------------------- state
VARIABLES
  backend,     \* which ItemStorage createStorage() returned
  clock,       \* the last value Date.now() returned
  items,       \* MemoryStorage.items
  versions,    \* MemoryStorage.versions
  table,       \* the durable table: a set of records keyed by (id, version)
  pc,          \* position of each caller inside its store call
  call,        \* each caller's current (or last) store call and its locals
  hist         \* per id: completed calls, overlap and failure flags, last writer

vars == <<backend, clock, items, versions, table, pc, call, hist>>

\* --------------------------------------------------- pure item functions
\* variant: versions counted from 0
NewItem_FromZero(itemId, data, now) ==
  Spread(Spread([id |-> itemId], data),
         [metadata |-> Spread(data.metadata,
                              [created |-> now, lastModified |-> now, version |-> 0])])

\* variant: created left at the epoch
NewItem_CreatedUnset(itemId, data, now) ==
  Spread(Spread([id |-> itemId], data),
         [metadata |-> Spread(data.metadata,
                              [created |-> 0, lastModified |-> now, version |-> 1])])

NewItem(itemId, data, now) ==
  Spread(Spread([id |-> itemId], data),
         [metadata |-> Spread(data.metadata,
                              [created |-> now, lastModified |-> now, version |-> 1])])

\* variant: content: data.content || current.content (replaced wholesale)
MergeUpdate_ReplacesContent(current, data, now) ==
  Spread(Spread(current, data),
         [content |-> IF "content" \in DOMAIN data
                        THEN data.content
                        ELSE current.content,
          metadata |-> Spread(Spread(current.metadata,
                                     IF "metadata" \in DOMAIN data
                                       THEN data.metadata ELSE << >>),
                              [lastModified |-> now,
                               version |-> current.metadata.version + 1])])

\* variant: the payload's metadata spread after lastModified is set
MergeUpdate_PayloadLastModified(current, data, now) ==
  Spread(Spread(current, data),
         [content |-> IF "content" \in DOMAIN data
                        THEN Spread(current.content, data.content)
                        ELSE current.content,
          metadata |-> Spread(Spread(Spread(current.metadata, [lastModified |-> now]),
                                     IF "metadata" \in DOMAIN data
                                       THEN data.metadata ELSE << >>),
                              [version |-> current.metadata.version + 1])])

MergeUpdate(current, data, now) ==
  Spread(Spread(current, data),
         [content |-> IF "content" \in DOMAIN data
                        THEN Spread(current.content, data.content)
                        ELSE current.content,
          metadata |-> Spread(Spread(current.metadata,
                                     IF "metadata" \in DOMAIN data
                                       THEN data.metadata ELSE << >>),
                              [lastModified |-> now,
                               version |-> current.metadata.version + 1])])

\* variant: the copy also refreshes created
CopyVersion_RefreshesCreated(current, now) ==
  Spread(current,
         [metadata |-> Spread(current.metadata,
                              [version |-> current.metadata.version + 1,
                               created |-> now,
                               lastModified |-> now])])

CopyVersion(current, now) ==
  Spread(current,
         [metadata |-> Spread(current.metadata,
                              [version |-> current.metadata.version + 1,
                               lastModified |-> now])])

\* ------------------------------------------------------------ the table
RecordsOf(t, id) == {r \in t : r.id = id}

\* variant: a put conditioned on the key not existing yet
Put_IfAbsent(t, rec) ==
  IF \E r \in t : r.id = rec.id /\ r.version = rec.version THEN t ELSE t \cup {rec}

\* PutCommand: replaces the record with the same primary key (id, version)
Put(t, rec) ==
  {r \in t : ~(r.id = rec.id /\ r.version = rec.version)} \cup {rec}

\* variant: the index sort key projected from metadata.created
WithKeys_CreatedAsIndexKey(item, latest) ==
  Spread(item, [version |-> item.metadata.version,
                latestVersion |-> latest,
                lastModified |-> item.metadata.created])

\* the record written for an item: the item plus its key and index fields
WithKeys(item, latest) ==
  Spread(item, [version |-> item.metadata.version,
                latestVersion |-> latest,
                lastModified |-> item.metadata.lastModified])

\* variant: the old record rewritten with its marker untouched
Demoted_Unflipped(currentWithKeys) == currentWithKeys

\* latestVersion: 'false' over the record as it was read
Demoted(currentWithKeys) == Spread(currentWithKeys, [latestVersion |-> "false"])

\* variant: the query read in ascending version order
GetCurrentVersionWithKeys_Ascending(t, id) ==
  IF RecordsOf(t, id) = {} THEN Null
  ELSE CHOOSE r \in RecordsOf(t, id) :
         \A o \in RecordsOf(t, id) : r.version <= o.version

\* Query by id, ScanIndexForward false, Limit 1
GetCurrentVersionWithKeys(t, id) ==
  IF RecordsOf(t, id) = {} THEN Null
  ELSE CHOOSE r \in RecordsOf(t, id) :
         \A o \in RecordsOf(t, id) : o.version <= r.version

\* ------------------------------------------------------------------ init
NoCall == [op |-> "none"]

Init ==
  /\ backend \in {"memory", "dynamodb"}
  /\ clock = 1
  /\ items = [i \in Ids |-> Null]
  /\ versions = [i \in Ids |-> << >>]
  /\ table = {}
  /\ pc = [p \in Procs |-> "idle"]
  /\ call = [p \in Procs |-> NoCall]
  /\ hist = [i \in Ids |-> [calls |-> 0, raced |-> FALSE, failed |-> FALSE,
                            writer |-> "none"]]

\* Date.now(): the values a call may read; time does not go backwards
Nows == {clock} \cup (IF clock < MaxClock THEN {clock + 1} ELSE {})

\* randomUUID(): an id no stored item has
FreshId(used) == CHOOSE i \in Ids \ used : \A o \in Ids \ used : i <= o

\* the number of version records the selected backend holds
RECURSIVE MemCount(_)
MemCount(n) == IF n = 0 THEN 0 ELSE MemCount(n - 1) + Len(versions[n])

StoredCount == IF backend = "memory" THEN MemCount(MaxIds) ELSE Cardinality(table)

dynVars == <<table>>
memVars == <<items, versions>>

Completed(p, id) == [hist EXCEPT ![id].calls = @ + 1, ![id].writer = p]

InFlight(p) == pc[p] \in {"compute", "demote", "promote"}

Returned(p, c) ==
  /\ pc' = [pc EXCEPT ![p] = "done"]
  /\ call' = [call EXCEPT ![p] = c]

\* ------------------------------------------------------- MemoryStorage
MemIds == {i \in Ids : items[i] # Null}

MemCreateItem(p, data) ==
  /\ backend = "memory"
  /\ ~InFlight(p)
  /\ MemIds # Ids /\ StoredCount < MaxRecords
  /\ \E now \in Nows :
       LET item == NewItem(FreshId(MemIds), data, now) IN
         /\ clock' = now
         /\ items' = [items EXCEPT ![item.id] = item]
         /\ versions' = [versions EXCEPT ![item.id] = <<item>>]
         /\ Returned(p, [op |-> "createItem", id |-> item.id, data |-> data,
                         result |-> item])
  /\ UNCHANGED <<backend, dynVars, hist>>

\* variant: the history is not extended
MemUpdateItem_NoHistory(p, id, data) ==
  /\ backend = "memory"
  /\ ~InFlight(p)
  /\ LET item == items[id] IN
       IF item = Null
         THEN /\ Returned(p, [op |-> "updateItem", id |-> id, data |-> data,
                              current |-> Null, result |-> Null])
              /\ UNCHANGED <<clock, memVars, hist>>
         ELSE /\ StoredCount < MaxRecords
              /\ \E now \in Nows :
                   LET updated == MergeUpdate(item, data, now) IN
                     /\ clock' = now
                     /\ items' = [items EXCEPT ![id] = updated]
                     /\ versions' = versions
                     /\ Returned(p, [op |-> "updateItem", id |-> id, data |-> data,
                                     current |-> item, newVersion |-> updated,
                                     result |-> updated])
              /\ hist' = Completed(p, id)
  /\ UNCHANGED <<backend, dynVars>>

MemUpdateItem(p, id, data) ==
  /\ backend = "memory"
  /\ ~InFlight(p)
  /\ LET item == items[id] IN
       IF item = Null
         THEN /\ Returned(p, [op |-> "updateItem", id |-> id, data |-> data,
                              current |-> Null, result |-> Null])
              /\ UNCHANGED <<clock, memVars, hist>>
         ELSE /\ StoredCount < MaxRecords
              /\ \E now \in Nows :
                   LET updated == MergeUpdate(item, data, now) IN
                     /\ clock' = now
                     /\ items' = [items EXCEPT ![id] = updated]
                     /\ versions' = [versions EXCEPT ![id] = Append(@, updated)]
                     /\ Returned(p, [op |-> "updateItem", id |-> id, data |-> data,
                                     current |-> item, newVersion |-> updated,
                                     result |-> updated])
              /\ hist' = Completed(p, id)
  /\ UNCHANGED <<backend, dynVars>>

\* variant: the new version is built from the item as first stored
MemCreateVersion_StaleItem(p, id) ==
  /\ backend = "memory"
  /\ ~InFlight(p)
  /\ LET item == items[id] IN
       IF item = Null
         THEN /\ Returned(p, [op |-> "createVersion", id |-> id, data |-> << >>,
                              current |-> Null, result |-> Null])
              /\ UNCHANGED <<clock, memVars, hist>>
         ELSE /\ StoredCount < MaxRecords
              /\ \E now \in Nows :
                   LET newVersion == CopyVersion(versions[id][1], now) IN
                     /\ clock' = now
                     /\ items' = [items EXCEPT ![id] = newVersion]
                     /\ versions' = [versions EXCEPT ![id] = Append(@, newVersion)]
                     /\ Returned(p, [op |-> "createVersion", id |-> id, data |-> << >>,
                                     current |-> item, newVersion |-> newVersion,
                                     result |-> newVersion])
              /\ hist' = Completed(p, id)
  /\ UNCHANGED <<backend, dynVars>>

MemCreateVersion(p, id) ==
  /\ backend = "memory"
  /\ ~InFlight(p)
  /\ LET item == items[id] IN
       IF item = Null
         THEN /\ Returned(p, [op |-> "createVersion", id |-> id, data |-> << >>,
                              current |-> Null, result |-> Null])
              /\ UNCHANGED <<clock, memVars, hist>>
         ELSE /\ StoredCount < MaxRecords
              /\ \E now \in Nows :
                   LET newVersion == CopyVersion(item, now) IN
                     /\ clock' = now
                     /\ items' = [items EXCEPT ![id] = newVersion]
                     /\ versions' = [versions EXCEPT ![id] = Append(@, newVersion)]
                     /\ Returned(p, [op |-> "createVersion", id |-> id, data |-> << >>,
                                     current |-> item, newVersion |-> newVersion,
                                     result |-> newVersion])
              /\ hist' = Completed(p, id)
  /\ UNCHANGED <<backend, dynVars>>

MemGetItem(id) == items[id]

MemGetAuditTrail(id) == versions[id]

\* ------------------------------------------------------ DynamoDBStorage
DynIds == {r.id : r \in table}

Overlaps(p, id) == \E q \in Procs \ {p} : InFlight(q) /\ call[q].id = id

DynCreateItem(p, data) ==
  /\ backend = "dynamodb"
  /\ ~InFlight(p)
  /\ DynIds # Ids /\ StoredCount < MaxRecords
  /\ \E now \in Nows :
       LET item == NewItem(FreshId(DynIds), data, now) IN
         /\ clock' = now
         /\ table' = Put(table, WithKeys(item, "true"))
         /\ Returned(p, [op |-> "createItem", id |-> item.id, data |-> data,
                         result |-> item])
  /\ UNCHANGED <<backend, memVars, hist>>

\* variant: without the early return on a missing item the destructuring of
\* null throws
DynRead_NoEarlyReturn(p, op, id, data) ==
  /\ backend = "dynamodb"
  /\ ~InFlight(p)
  /\ LET currentWithKeys == GetCurrentVersionWithKeys(table, id) IN
       IF currentWithKeys = Null
         THEN /\ Returned(p, [op |-> op, id |-> id, data |-> data,
                              current |-> Null, result |-> Thrown])
              /\ UNCHANGED hist
         ELSE /\ StoredCount < MaxRecords
              /\ pc' = [pc EXCEPT ![p] = "compute"]
              /\ call' = [call EXCEPT ![p] = [op |-> op, id |-> id, data |-> data,
                                              currentWithKeys |-> currentWithKeys]]
              /\ hist' = [hist EXCEPT ![id].raced = @ \/ Overlaps(p, id)]
  /\ UNCHANGED <<backend, clock, memVars, table>>

\* the first await of updateItem / createVersion: getCurrentVersionWithKeys
DynRead(p, op, id, data) ==
  /\ backend = "dynamodb"
  /\ ~InFlight(p)
  /\ LET currentWithKeys == GetCurrentVersionWithKeys(table, id) IN
       IF currentWithKeys = Null
         THEN /\ Returned(p, [op |-> op, id |-> id, data |-> data,
                              current |-> Null, result |-> Null])
              /\ UNCHANGED hist
         ELSE /\ StoredCount < MaxRecords
              /\ pc' = [pc EXCEPT ![p] = "compute"]
              /\ call' = [call EXCEPT ![p] = [op |-> op, id |-> id, data |-> data,
                                              currentWithKeys |-> currentWithKeys]]
              /\ hist' = [hist EXCEPT ![id].raced = @ \/ Overlaps(p, id)]
  /\ UNCHANGED <<backend, clock, memVars, table>>

DynUpdateItemRead(p, id, data) == DynRead(p, "updateItem", id, data)

DynCreateVersionRead(p, id) == DynRead(p, "createVersion", id, << >>)

\* the synchronous code between the read and the first write
DynUpdateItemCompute(p) ==
  /\ pc[p] = "compute" /\ call[p].op = "updateItem"
  /\ \E now \in Nows :
       LET current == StripKeys(call[p].currentWithKeys) IN
         /\ clock' = now
         /\ call' = [call EXCEPT ![p] =
                       Spread(@, [current |-> current,
                                  newVersion |-> MergeUpdate(current, call[p].data, now)])]
  /\ pc' = [pc EXCEPT ![p] = "demote"]
  /\ UNCHANGED <<backend, memVars, table, hist>>

DynCreateVersionCompute(p) ==
  /\ pc[p] = "compute" /\ call[p].op = "createVersion"
  /\ \E now \in Nows :
       LET current == StripKeys(call[p].currentWithKeys) IN
         /\ clock' = now
         /\ call' = [call EXCEPT ![p] =
                       Spread(@, [current |-> current,
                                  newVersion |-> CopyVersion(current, now)])]
  /\ pc' = [pc EXCEPT ![p] = "demote"]
  /\ UNCHANGED <<backend, memVars, table, hist>>

\* the first PutCommand: the record as read, marked not latest
DynDemote(p, op) ==
  /\ pc[p] = "demote" /\ call[p].op = op
  /\ table' = Put(table, Demoted(call[p].currentWithKeys))
  /\ pc' = [pc EXCEPT ![p] = "promote"]
  /\ UNCHANGED <<backend, clock, memVars, call, hist>>

\* the second PutCommand: the new version, marked latest; then return
DynPromote(p, op) ==
  /\ pc[p] = "promote" /\ call[p].op = op
  /\ table' = Put(table, WithKeys(call[p].newVersion, "true"))
  /\ Returned(p, Spread(call[p], [result |-> call[p].newVersion]))
  /\ hist' = Completed(p, call[p].id)
  /\ UNCHANGED <<backend, clock, memVars>>

DynUpdateItemDemote(p) == DynDemote(p, "updateItem")
DynUpdateItemPromote(p) == DynPromote(p, "updateItem")
DynCreateVersionDemote(p) == DynDemote(p, "createVersion")
DynCreateVersionPromote(p) == DynPromote(p, "createVersion")

\* client.send rejects (backend unavailable): the call throws at that await
DynPutFails(p) ==
  /\ pc[p] \in {"demote", "promote"}
  /\ Returned(p, Spread(call[p], [result |-> Thrown]))
  /\ hist' = [hist EXCEPT ![call[p].id].failed = TRUE]
  /\ UNCHANGED <<backend, clock, memVars, table>>

\* variant: the record marked latest is looked up, not the highest version
DynGetItem_ByLatestMarker(id) ==
  IF {r \in RecordsOf(table, id) : r.latestVersion = "true"} = {} THEN Null
  ELSE StripKeys(CHOOSE r \in RecordsOf(table, id) : r.latestVersion = "true")

\* variant: the query read in ascending version order (ScanIndexForward true)
DynGetItem_Oldest(id) ==
  IF RecordsOf(table, id) = {} THEN Null
  ELSE StripKeys(CHOOSE r \in RecordsOf(table, id) :
                   \A o \in RecordsOf(table, id) : r.version <= o.version)

\* getItem: Query by id, descending version, Limit 1, keys stripped
DynGetItem(id) ==
  LET r == GetCurrentVersionWithKeys(table, id) IN
    IF r = Null THEN Null ELSE StripKeys(r)

\* getAuditTrail: throws 'Not implemented'
DynGetAuditTrail(id) == Thrown

\* ------------------------------------------------------------ listItems
\* query.limit || 10, query.offset || 0
LimitOf(query) ==
  IF "limit" \in DOMAIN query /\ query.limit # 0 THEN query.limit ELSE DefaultLimit

OffsetOf(query) == IF "offset" \in DOMAIN query THEN query.offset ELSE 0

Min(a, b) == IF a <= b THEN a ELSE b

\* Array.prototype.slice(from, to) over a 1-based sequence
Slice(seq, from, to) == SubSeq(seq, from + 1, Min(to, Len(seq)))

\* Array.from(this.items.values()): a Map iterates in insertion order, and
\* ids are handed out in ascending order
RECURSIVE MemValues(_)
MemValues(n) ==
  IF n = 0 THEN << >>
  ELSE MemValues(n - 1) \o (IF items[n] = Null THEN << >> ELSE <<items[n]>>)

\* variant: total counted after the page is cut
MemListItems_TotalOfPage(query) ==
  LET BySubject(item) == "subject" \notin DOMAIN query \/ item.subject = query.subject
      ByStatus(item) == "status" \notin DOMAIN query \/ item.metadata.status = query.status
      filtered == SelectSeq(SelectSeq(MemValues(MaxIds), BySubject), ByStatus)
      page == Slice(filtered, OffsetOf(query), OffsetOf(query) + LimitOf(query))
  IN [items |-> page, total |-> Len(page)]

MemListItems(query) ==
  LET BySubject(item) == "subject" \notin DOMAIN query \/ item.subject = query.subject
      ByStatus(item) == "status" \notin DOMAIN query \/ item.metadata.status = query.status
      filtered == SelectSeq(SelectSeq(MemValues(MaxIds), BySubject), ByStatus)
  IN [items |-> Slice(filtered, OffsetOf(query), OffsetOf(query) + LimitOf(query)),
      total |-> Len(filtered)]

\* LatestVersionIndex: the records whose latestVersion is 'true'
LatestIndex(t) == {r \in t : r.latestVersion = "true"}

\* the index read with ScanIndexForward false: newest lastModified first; the
\* order among records of equal lastModified is the service's choice
IndexOrders(t) ==
  LET S == LatestIndex(t)
      n == Cardinality(S)
  IN {o \in [1..n -> S] :
        /\ \A i, j \in 1..n : i # j => o[i] # o[j]
        /\ \A i \in 1..n, j \in 1..n : i < j => o[i].lastModified >= o[j].lastModified}

KeyOf(r) == [id |-> r.id, version |-> r.version,
             latestVersion |-> r.latestVersion, lastModified |-> r.lastModified]

\* Buffer.from(JSON.stringify(key)).toString('base64') and its inverse
EncodeToken(key) == <<"b64", key.latestVersion, key.lastModified, key.id, key.version>>
DecodeToken(token) == [latestVersion |-> token[2], lastModified |-> token[3],
                       id |-> token[4], version |-> token[5]]

\* variant: the scan resumes at the start key itself
AfterKey_Inclusive(order, key) ==
  LET n == Len(order)
      at == {i \in 1..n : KeyOf(order[i]) = key}
      from == IF at # {} THEN CHOOSE i \in at : TRUE ELSE n + 1
  IN SubSeq(order, from, n)

\* the records of the index that follow ExclusiveStartKey
AfterKey(order, key) ==
  LET n == Len(order)
      at == {i \in 1..n : KeyOf(order[i]) = key}
      from == IF at # {} THEN (CHOOSE i \in at : TRUE) + 1
              ELSE IF \E i \in 1..n : order[i].lastModified < key.lastModified
                     THEN CHOOSE i \in 1..n :
                            /\ order[i].lastModified < key.lastModified
                            /\ \A j \in 1..(i - 1) : order[j].lastModified >= key.lastModified
                     ELSE n + 1
  IN SubSeq(order, from, n)

\* JSON.parse(Buffer.from(token, 'base64')) succeeds only on an encoded key
Parses(token) == Len(token) = 5 /\ token[1] = "b64"

DynListItems(order, query) ==
  IF "nextToken" \in DOMAIN query /\ ~Parses(query.nextToken)
    THEN Thrown
    ELSE
      LET scan == IF "nextToken" \in DOMAIN query
                    THEN AfterKey(order, DecodeToken(query.nextToken)) ELSE order
          page == SubSeq(scan, 1, Min(LimitOf(query), Len(scan)))
          stripped == [i \in 1..Len(page) |-> StripKeys(page[i])]
      IN IF Len(page) = LimitOf(query)
           THEN [items |-> stripped, total |-> Len(page),
                 nextToken |-> EncodeToken(KeyOf(page[Len(page)]))]
           ELSE [items |-> stripped, total |-> Len(page)]

\* the queries callers send
Limits == {[limit |-> n] : n \in 1..MaxLimit} \cup {<< >>}
MemQueries == Limits
DynQueries ==
  Limits \cup {Spread(q, [nextToken |-> EncodeToken(KeyOf(r))]) : q \in Limits, r \in table}

\* ------------------------------------------------------------------ next
\* one caller at a time, every id, either backend
Caller == "p1"

Next ==
  \/ \E d \in CreateRequests : MemCreateItem(Caller, d)
  \/ \E i \in Ids, d \in UpdateRequests : MemUpdateItem(Caller, i, d)
  \/ \E i \in Ids : MemCreateVersion(Caller, i)
  \/ \E d \in CreateRequests : DynCreateItem(Caller, d)
  \/ \E i \in Ids, d \in UpdateRequests : DynUpdateItemRead(Caller, i, d)
  \/ DynUpdateItemCompute(Caller)
  \/ DynUpdateItemDemote(Caller)
  \/ DynUpdateItemPromote(Caller)
  \/ \E i \in Ids : DynCreateVersionRead(Caller, i)
  \/ DynCreateVersionCompute(Caller)
  \/ DynCreateVersionDemote(Caller)
  \/ DynCreateVersionPromote(Caller)
  \/ DynPutFails(Caller)

Spec == Init /\ [][Next]_vars

\* concurrent callers racing on the first id, one update/createVersion each
RaceIds == {FreshId({})}
RaceRequests == {UpdContent, UpdStatus}

Idle(p) == pc[p] = "idle" \/ (pc[p] = "done" /\ call[p].op = "createItem")

NextRace ==
  \/ \E p \in Procs : MemIds = {} /\ MemCreateItem(p, PayloadBio)
  \/ \E p \in Procs, i \in RaceIds, d \in RaceRequests : Idle(p) /\ MemUpdateItem(p, i, d)
  \/ \E p \in Procs, i \in RaceIds : Idle(p) /\ MemCreateVersion(p, i)
  \/ \E p \in Procs : DynIds = {} /\ DynCreateItem(p, PayloadBio)
  \/ \E p \in Procs, i \in RaceIds, d \in RaceRequests : Idle(p) /\ DynUpdateItemRead(p, i, d)
  \/ \E p \in Procs : DynUpdateItemCompute(p)
  \/ \E p \in Procs : DynUpdateItemDemote(p)
  \/ \E p \in Procs : DynUpdateItemPromote(p)
  \/ \E p \in Procs, i \in RaceIds : Idle(p) /\ DynCreateVersionRead(p, i)
  \/ \E p \in Procs : DynCreateVersionCompute(p)
  \/ \E p \in Procs : DynCreateVersionDemote(p)
  \/ \E p \in Procs : DynCreateVersionPromote(p)
  \/ \E p \in Procs : DynPutFails(p)

SpecRace == Init /\ [][NextRace]_vars

\* one instance of each backend driven by the same sequential calls, with the
\* same clock readings; MemCaller holds the in-memory outcome of the last
\* call and DynCaller the durable one
MemCaller == "p1"
DynCaller == "p2"

InitBoth ==
  /\ backend = "both"
  /\ clock = 1
  /\ items = [i \in Ids |-> Null]
  /\ versions = [i \in Ids |-> << >>]
  /\ table = {}
  /\ pc = [p \in Procs |-> "idle"]
  /\ call = [p \in Procs |-> NoCall]
  /\ hist = [i \in Ids |-> [calls |-> 0, raced |-> FALSE, failed |-> FALSE,
                            writer |-> "none"]]

BothReturned(c, memResult, dynResult) ==
  /\ pc' = [pc EXCEPT ![MemCaller] = "done", ![DynCaller] = "done"]
  /\ call' = [call EXCEPT ![MemCaller] = Spread(c, [result |-> memResult]),
                          ![DynCaller] = Spread(c, [result |-> dynResult])]

BothCreateItem(data) ==
  /\ backend = "both"
  /\ MemIds # Ids /\ DynIds # Ids /\ StoredCount < MaxRecords
  /\ \E now \in Nows :
       LET memItem == NewItem(FreshId(MemIds), data, now)
           dynItem == NewItem(FreshId(DynIds), data, now)
       IN /\ clock' = now
          /\ items' = [items EXCEPT ![memItem.id] = memItem]
          /\ versions' = [versions EXCEPT ![memItem.id] = <<memItem>>]
          /\ table' = Put(table, WithKeys(dynItem, "true"))
          /\ BothReturned([op |-> "createItem", data |-> data], memItem, dynItem)
  /\ UNCHANGED <<backend, hist>>

\* the new version updateItem / createVersion makes from the current one
BuildVersion(op, current, data, now) ==
  IF op = "updateItem" THEN MergeUpdate(current, data, now)
  ELSE CopyVersion(current, now)

\* updateItem / createVersion on both instances
BothWrite(op, id, data) ==
  /\ backend = "both"
  /\ \E now \in Nows :
       LET item == items[id]
           currentWithKeys == GetCurrentVersionWithKeys(table, id)
           memResult == IF item = Null THEN Null
                        ELSE BuildVersion(op, item, data, now)
           dynResult == IF currentWithKeys = Null THEN Null
                        ELSE BuildVersion(op, StripKeys(currentWithKeys), data, now)
       IN /\ (item # Null \/ currentWithKeys # Null) => StoredCount < MaxRecords
          /\ clock' = IF item = Null /\ currentWithKeys = Null THEN clock ELSE now
          /\ items' = IF item = Null THEN items ELSE [items EXCEPT ![id] = memResult]
          /\ versions' = IF item = Null THEN versions
                         ELSE [versions EXCEPT ![id] = Append(@, memResult)]
          /\ table' = IF currentWithKeys = Null THEN table
                      ELSE Put(Put(table, Demoted(currentWithKeys)),
                               WithKeys(dynResult, "true"))
          /\ BothReturned([op |-> op, id |-> id, data |-> data], memResult, dynResult)
  /\ UNCHANGED <<backend, hist>>

BothUpdateItem(id, data) == BothWrite("updateItem", id, data)

BothCreateVersion(id) == BothWrite("createVersion", id, << >>)

NextBoth ==
  \/ \E d \in CreateRequests : BothCreateItem(d)
  \/ \E i \in Ids, d \in UpdateRequests : BothUpdateItem(i, d)
  \/ \E i \in Ids : BothCreateVersion(i)

SpecBoth == InitBoth /\ [][NextBoth]_vars

\* ------------------------------------------------------------ properties
Quiescent == \A p \in Procs : ~InFlight(p)

LatestOf(id) == {r \in RecordsOf(table, id) : r.latestVersion = "true"}

MaxStored(id) ==
  CHOOSE v \in {r.version : r \in RecordsOf(table, id)} :
    \A r \in RecordsOf(table, id) : r.version <= v

\* the outcome of getAuditTrail on the selected backend
GetAuditTrail(id) ==
  IF backend = "memory" THEN [threw |-> FALSE, value |-> MemGetAuditTrail(id)]
  ELSE [threw |-> TRUE, value |-> DynGetAuditTrail(id)]

\* C1: on the durable backend, with no backend failure, whenever no
\* update/createVersion is in flight, exactly one stored record of each id
\* is marked latest and it is the record with the highest version.
C1_ExactlyOneLatestWhenQuiescent ==
  (backend = "dynamodb" /\ Quiescent) =>
    \A id \in DynIds :
      ~hist[id].failed =>
        /\ Cardinality(LatestOf(id)) = 1
        /\ \A r \in LatestOf(id) : r.version = MaxStored(id)

\* C2: after one create and N sequential update/createVersion calls on its
\* id, getAuditTrail(id) returns N+1 records with versions 1..N+1 in
\* ascending order, on the in-memory and on the durable backend.
C2_AuditTrailVersions ==
  \A id \in MemIds \cup DynIds :
    (Quiescent /\ ~hist[id].failed /\ ~hist[id].raced) =>
      LET trail == GetAuditTrail(id) IN
        /\ ~trail.threw
        /\ Len(trail.value) = hist[id].calls + 1
        /\ \A k \in 1..Len(trail.value) : trail.value[k].metadata.version = k

\* C3: every stored version of an id carries the created timestamp of
\* version 1, whatever payloads update was given.
C3_CreatedFixed ==
  /\ \A id \in MemIds : \A k \in 1..Len(versions[id]) :
       versions[id][k].metadata.created = versions[id][1].metadata.created
  /\ \A r, o \in table :
       (r.id = o.id /\ o.version = 1) => r.metadata.created = o.metadata.created

\* C4: listItems returns at most one record per id and that record has the
\* highest version stored for the id; on the in-memory backend always, on
\* the durable backend whenever no call is between its two writes.
OnePerIdAtMax(page, MaxOf(_)) ==
  /\ \A i, j \in 1..Len(page) : i # j => page[i].id # page[j].id
  /\ \A i \in 1..Len(page) : page[i].metadata.version = MaxOf(page[i].id)

BetweenWrites(p) == pc[p] = "promote"

C4_ListOnePerIdAtMaxVersion ==
  /\ backend = "memory" =>
       \A q \in MemQueries :
         LET MemMax(id) == Len(versions[id]) IN
           OnePerIdAtMax(MemListItems(q).items, MemMax)
  /\ (backend = "dynamodb" /\ \A p \in Procs : ~BetweenWrites(p)) =>
       \A o \in IndexOrders(table), q \in DynQueries :
         OnePerIdAtMax(DynListItems(o, q).items, MaxStored)

\* C5: a stored version record is never deleted and never changes, except
\* that its latest marker may go from true to false.
C5_VersionsImmutable ==
  [][\A r \in table : \E n \in table' :
        /\ n.id = r.id /\ n.version = r.version
        /\ \/ n = r
           \/ r.latestVersion = "true" /\ n = Demoted(r)]_vars

\* C6: two updateItem calls of the durable backend that read the same
\* latest version N, with no third call reading the id since, both return a
\* version N+1 item; afterwards the single
\* version N+1 record is the item returned by the call that wrote last and
\* no stored version is the item the other call returned.
ReadSince(r, id, N) ==
  /\ call[r].op \in {"updateItem", "createVersion"} /\ call[r].id = id
  /\ "currentWithKeys" \in DOMAIN call[r] /\ call[r].currentWithKeys.version >= N

SameRead(p, q) ==
  /\ p # q /\ pc[p] = "done" /\ pc[q] = "done"
  /\ call[p].op = "updateItem" /\ call[q].op = "updateItem"
  /\ "newVersion" \in DOMAIN call[p] /\ "newVersion" \in DOMAIN call[q]
  /\ call[p].id = call[q].id
  /\ call[p].currentWithKeys.version = call[q].currentWithKeys.version
  /\ ~hist[call[p].id].failed
  /\ MaxStored(call[p].id) = call[p].currentWithKeys.version + 1
  /\ \A r \in Procs \ {p, q} : ~ReadSince(r, call[p].id, call[p].currentWithKeys.version)

C6_LastWriterWins ==
  backend = "dynamodb" =>
    \A p, q \in Procs :
      (SameRead(p, q) /\ hist[call[p].id].writer = p) =>
        LET id == call[p].id
            N == call[p].currentWithKeys.version
        IN /\ call[p].result.metadata.version = N + 1
           /\ call[q].result.metadata.version = N + 1
           /\ {StripKeys(r) : r \in {x \in RecordsOf(table, id) : x.version = N + 1}}
                = {call[p].result}
           /\ call[q].result # call[p].result =>
                \A r \in RecordsOf(table, id) : StripKeys(r) # call[q].result

C6_Witness ==
  \E p, q \in Procs :
    /\ backend = "dynamodb" /\ SameRead(p, q) /\ hist[call[p].id].writer = p
    /\ call[p].data = UpdStatus /\ call[q].data = UpdContent
    /\ \A r \in RecordsOf(table, call[p].id) : r.subject = PayloadBio.subject

\* C7: while one update/createVersion of the durable backend is between its
\* two writes on an id no other writer has overlapped, listItems returns no
\* record of that id.
C7_ZeroLatestBetweenWrites ==
  \A p \in Procs :
    (backend = "dynamodb" /\ BetweenWrites(p) /\ ~hist[call[p].id].raced) =>
      /\ LatestOf(call[p].id) = {}
      /\ \A o \in IndexOrders(table), q \in DynQueries :
           \A i \in 1..Len(DynListItems(o, q).items) :
             DynListItems(o, q).items[i].id # call[p].id

C7_Witness ==
  \E p \in Procs :
    /\ backend = "dynamodb" /\ BetweenWrites(p) /\ ~hist[call[p].id].raced
    /\ call[p].currentWithKeys.version = 2
    /\ call[p].currentWithKeys.latestVersion = "true"

\* C8: on either backend the version numbers stored for an id are exactly
\* 1..k for some k >= 1, also after interleaved calls and failed writes.
C8_VersionsDense ==
  /\ \A id \in MemIds :
       /\ Len(versions[id]) >= 1
       /\ {versions[id][k].metadata.version : k \in 1..Len(versions[id])}
            = 1..Len(versions[id])
  /\ \A id \in DynIds :
       {r.metadata.version : r \in RecordsOf(table, id)}
         = 1..Cardinality(RecordsOf(table, id))

C8_Witness ==
  \E id \in DynIds :
    /\ hist[id].raced /\ hist[id].failed
    /\ Cardinality(RecordsOf(table, id)) = 3

\* C9: updateItem returns an item whose top-level fields come from the
\* payload when present there and from the previous latest otherwise, and
\* whose content and metadata groups are merged key by key.
TopLevelFields == {"id", "subject", "itemType", "difficulty", "securityLevel"}
ContentFields == {"question", "options", "correctAnswer", "explanation"}
MetadataFields == {"author", "status", "tags", "created"}

HasKey(data, group, k) == group \in DOMAIN data /\ k \in DOMAIN data[group]

MergedByKey(previous, data, group, merged, keys) ==
  \A k \in keys :
    IF HasKey(data, group, k)
      THEN k \in DOMAIN merged /\ merged[k] = data[group][k]
      ELSE IF k \in DOMAIN previous
             THEN k \in DOMAIN merged /\ merged[k] = previous[k]
             ELSE k \notin DOMAIN merged

Updated(p) == call[p].op = "updateItem" /\ "newVersion" \in DOMAIN call[p]

C9_UpdateMergesByKey ==
  \A p \in Procs :
    Updated(p) =>
      LET previous == call[p].current
          data == call[p].data
          new == call[p].newVersion
      IN /\ \A k \in TopLevelFields :
              new[k] = IF k \in DOMAIN data THEN data[k] ELSE previous[k]
         /\ MergedByKey(previous.content, data, "content", new.content, ContentFields)
         /\ MergedByKey(previous.metadata, data, "metadata", new.metadata, MetadataFields)
         /\ pc[p] = "done" /\ call[p].result # Thrown => call[p].result = new

C9_Witness ==
  \E p \in Procs :
    /\ Updated(p) /\ pc[p] = "done" /\ call[p].data = UpdContent
    /\ call[p].result.content.question = "q2"
    /\ call[p].result.content.explanation = call[p].current.content.explanation
    /\ call[p].current.content.question # "q2"
    /\ call[p].result.metadata.status = "approved"
    /\ call[p].result.securityLevel = call[p].current.securityLevel

\* C10 as stated: every update and createVersion produces a version whose
\* lastModified is strictly greater than that of the version it supersedes.
Superseding(p) ==
  call[p].op \in {"updateItem", "createVersion"} /\ "newVersion" \in DOMAIN call[p]

C10_LastModifiedStrictlyIncreases ==
  \A p \in Procs :
    Superseding(p) =>
      call[p].newVersion.metadata.lastModified > call[p].current.metadata.lastModified

\* C10 amended: every update and createVersion produces a version whose
\* lastModified is greater than or equal to that of the version it
\* supersedes; two calls within one clock reading get equal timestamps.
C10_LastModifiedNeverDecreases ==
  \A p \in Procs :
    Superseding(p) =>
      call[p].newVersion.metadata.lastModified >= call[p].current.metadata.lastModified

C10_Witness ==
  \E p \in Procs :
    /\ Superseding(p) /\ pc[p] = "done"
    /\ call[p].current.metadata.version = 2
    /\ call[p].newVersion.metadata.lastModified = call[p].current.metadata.lastModified

\* ------------------------------------------------- reads of either backend
GetItem(id) == IF backend = "memory" THEN MemGetItem(id) ELSE DynGetItem(id)

StoredIds == IF backend = "memory" THEN MemIds ELSE DynIds

StoredVersions(id) ==
  IF backend = "memory" THEN Len(versions[id]) ELSE Cardinality(RecordsOf(table, id))

\* C11: getItem returns null for an id with no stored version; for an id
\* with k >= 1 versions it returns the stored version-k record, and after a
\* call that wrote a version returned, it returns the item that call wrote.
C11_GetItemReturnsHighestVersion ==
  /\ \A id \in Ids :
       IF StoredVersions(id) = 0
         THEN GetItem(id) = Null
         ELSE /\ GetItem(id) # Null
              /\ GetItem(id).id = id
              /\ GetItem(id).metadata.version = StoredVersions(id)
              /\ backend = "memory" => GetItem(id) = versions[id][Len(versions[id])]
              /\ backend = "dynamodb" =>
                   \E r \in RecordsOf(table, id) :
                     r.version = StoredVersions(id) /\ StripKeys(r) = GetItem(id)
  /\ \A p \in Procs :
       (pc[p] = "done" /\ call[p].result # Null /\ call[p].result # Thrown) =>
         GetItem(call[p].id) = call[p].result

C11_Witness ==
  /\ backend = "dynamodb"
  /\ \E id \in Ids : StoredVersions(id) = 0 /\ GetItem(id) = Null
  /\ \E id \in Ids :
       /\ StoredVersions(id) = 2
       /\ GetItem(id).metadata.version = 2
       /\ GetItem(id).metadata.status = "approved"
       /\ pc[Caller] = "done" /\ call[Caller].result = GetItem(id)

\* listItems of the selected backend; order is the index order the durable
\* service answers with
ListItems(order, query) ==
  IF backend = "memory" THEN MemListItems(query) ELSE DynListItems(order, query)

\* the items currently listed as latest, keys stripped
LatestItems ==
  IF backend = "memory" THEN {items[i] : i \in MemIds}
  ELSE {StripKeys(r) : r \in LatestIndex(table)}

\* the equality filters of ListItemsQuery
Filters ==
  {[status |-> "approved"], [status |-> "draft"], [subject |-> "AP Physics"],
   [subject |-> "AP Physics", status |-> "approved"]}

FilterQueries == {Spread(f, l) : f \in Filters, l \in Limits}

Matches(item, query) ==
  /\ "subject" \in DOMAIN query => item.subject = query.subject
  /\ "status" \in DOMAIN query => item.metadata.status = query.status

\* C12: listItems with a subject and/or status filter returns only latest
\* items whose field equals the filter value, and every matching latest item
\* when the matches fit in the page, on both backends.
C12_FilterReturnsExactlyMatching ==
  \A o \in IndexOrders(table), q \in FilterQueries :
    LET page == ListItems(o, q).items
        matching == {item \in LatestItems : Matches(item, q)}
    IN /\ \A i \in 1..Len(page) : Matches(page[i], q)
       /\ Cardinality(matching) <= LimitOf(q) =>
            {page[i] : i \in 1..Len(page)} = matching

NewestFirst(page) ==
  \A i \in 1..(Len(page) - 1) :
    page[i].metadata.lastModified >= page[i + 1].metadata.lastModified

\* C13: on both backends every page listItems returns is ordered newest
\* lastModified first: no record is followed by one modified later.
C13_ListNewestFirst ==
  /\ backend = "memory" => \A q \in MemQueries : NewestFirst(MemListItems(q).items)
  /\ backend = "dynamodb" =>
       \A o \in IndexOrders(table), q \in DynQueries :
         NewestFirst(DynListItems(o, q).items)

\* a caller paging through the durable listing: each returned nextToken is
\* sent back until a page comes without one
RECURSIVE DynTraverse(_, _, _)
DynTraverse(order, query, pages) ==
  LET r == DynListItems(order, query) IN
    IF "nextToken" \in DOMAIN r /\ pages > 0
      THEN r.items \o DynTraverse(order, Spread(query, [nextToken |-> r.nextToken]),
                                  pages - 1)
      ELSE r.items

\* the same caller on the in-memory backend: its result carries no nextToken
MemTraverseByToken(query) == MemListItems(query).items

\* a caller paging through the in-memory listing by offset until an empty page
RECURSIVE MemTraverseByOffset(_, _, _)
MemTraverseByOffset(query, offset, pages) ==
  LET r == MemListItems(Spread(query, [offset |-> offset])) IN
    IF Len(r.items) = 0 \/ pages = 0 THEN << >>
    ELSE r.items \o MemTraverseByOffset(query, offset + LimitOf(query), pages - 1)

PageSizes == {[limit |-> n] : n \in 1..MaxLimit}

DynTokenRoundTrip ==
  \A o \in IndexOrders(table), q \in PageSizes :
    DynTraverse(o, q, Len(o) + 1) = DynListItems(o, << >>).items

\* C14 as stated: following the continuation tokens of listItems page by
\* page until none is returned yields the records of one unpaginated
\* listing, in the same order, on the durable and the in-memory backend.
C14_TokenTraversalComplete ==
  /\ backend = "dynamodb" => DynTokenRoundTrip
  /\ backend = "memory" =>
       \A q \in PageSizes : MemTraverseByToken(q) = MemListItems(<< >>).items

\* C14 amended: on the durable backend following the continuation tokens
\* yields the unpaginated listing; on the in-memory backend, which returns
\* no token, advancing offset by the page size until an empty page does.
C14_TraversalComplete ==
  /\ backend = "dynamodb" => DynTokenRoundTrip
  /\ backend = "memory" =>
       \A q \in PageSizes :
         MemTraverseByOffset(q, 0, Cardinality(MemIds) + 1) = MemListItems(<< >>).items

C14_Witness ==
  /\ backend = "dynamodb"
  /\ Cardinality(LatestIndex(table)) = 2
  /\ \E r, o \in LatestIndex(table) : r # o /\ r.lastModified = o.lastModified
  /\ \E o \in IndexOrders(table) :
       /\ "nextToken" \in DOMAIN DynListItems(o, [limit |-> 1])
       /\ Len(DynTraverse(o, [limit |-> 1], Len(o) + 1)) = 2

\* C15: driven by the same sequential calls the in-memory and the durable
\* backend return the same results, getItem answers, listings (membership
\* and order, with and without filters) and audit trails.
C15_BackendsEquivalent ==
  backend = "both" =>
    /\ pc[MemCaller] = "done" => call[MemCaller].result = call[DynCaller].result
    /\ \A id \in Ids : MemGetItem(id) = DynGetItem(id)
    /\ \A id \in Ids :
         /\ DynGetAuditTrail(id) # Thrown
         /\ DynGetAuditTrail(id) = MemGetAuditTrail(id)
    /\ \A o \in IndexOrders(table), q \in Limits \cup FilterQueries :
         MemListItems(q).items = DynListItems(o, q).items

\* C16: for an id that was never created getAuditTrail returns the empty
\* sequence without raising, and getItem returns null, on both backends.
C16_AuditTrailOfUnknownIdEmpty ==
  \A id \in Ids \ StoredIds :
    /\ ~GetAuditTrail(id).threw
    /\ GetAuditTrail(id).value = << >>
    /\ GetItem(id) = Null

\* a step in which p enters updateItem or createVersion
StartsWrite(p) ==
  /\ ~InFlight(p)
  /\ call'[p].op \in {"updateItem", "createVersion"}
  /\ call'[p] # call[p] \/ pc'[p] # pc[p]

\* C17: updateItem and createVersion called on an id with no stored version
\* return null at once and write nothing: items, versions and the table,
\* latest markers included, are as before.
C17_NotFoundLeavesStoreUnchanged ==
  [][\A p \in Procs :
       (StartsWrite(p) /\ call'[p].id \notin StoredIds) =>
         /\ pc'[p] = "done"
         /\ call'[p].result = Null
         /\ items' = items /\ versions' = versions /\ table' = table]_vars

C17_Witness ==
  \E p \in Procs :
    /\ backend = "dynamodb" /\ pc[p] = "done"
    /\ call[p].op = "createVersion" /\ call[p].result = Null
    /\ call[p].id \notin StoredIds
    /\ \E id \in StoredIds : StoredVersions(id) = 2

CreatedVersion(p) == call[p].op = "createVersion" /\ "newVersion" \in DOMAIN call[p]

\* C18: createVersion on an existing id makes a version that equals the
\* previous latest in every field, created included, except version (one
\* more) and lastModified; once it has returned, the new version is what
\* getItem returns and the previous one is no longer the latest.
C18_CreateVersionCopiesPayload ==
  \A p \in Procs :
    CreatedVersion(p) =>
      LET previous == call[p].current
          new == call[p].newVersion
          id == call[p].id
      IN /\ DOMAIN new = DOMAIN previous
         /\ \A k \in DOMAIN previous \ {"metadata"} : new[k] = previous[k]
         /\ DOMAIN new.metadata = DOMAIN previous.metadata
         /\ \A k \in DOMAIN previous.metadata \ {"version", "lastModified"} :
              new.metadata[k] = previous.metadata[k]
         /\ new.metadata.version = previous.metadata.version + 1
         /\ (pc[p] = "done" /\ call[p].result # Thrown) =>
              /\ call[p].result = new
              /\ GetItem(id) = new
              /\ backend = "memory" =>
                   /\ items[id] # previous
                   /\ versions[id][Len(versions[id]) - 1] = previous
              /\ backend = "dynamodb" =>
                   /\ LatestOf(id) = {WithKeys(new, "true")}
                   /\ WithKeys(previous, "false") \in table

C18_Witness ==
  \E p \in Procs :
    /\ backend = "dynamodb" /\ CreatedVersion(p) /\ pc[p] = "done"
    /\ call[p].result = call[p].newVersion
    /\ call[p].current.metadata.version = 2
    /\ call[p].current.metadata.status = "approved"
    /\ call[p].result.metadata.lastModified > call[p].current.metadata.lastModified

\* a step in which p's createItem runs
CreatesItem(p) == call'[p].op = "createItem" /\ call'[p] # call[p]

\* C19: createItem returns an item with the payload's fields, version 1,
\* created equal to lastModified and an id no stored item has; right after
\* it getItem returns that item, it is the only and latest record of its
\* id, and the records of every other id are as before.
C19_CreateItemFresh ==
  [][\A p \in Procs :
       CreatesItem(p) =>
         LET item == call'[p].result
             data == call'[p].data
         IN /\ \A k \in DOMAIN data \ {"metadata"} : item[k] = data[k]
            /\ \A k \in DOMAIN data.metadata : item.metadata[k] = data.metadata[k]
            /\ item.metadata.version = 1
            /\ item.metadata.created = item.metadata.lastModified
            /\ item.id \notin StoredIds
            /\ backend = "memory" =>
                 /\ items'[item.id] = item
                 /\ versions'[item.id] = <<item>>
                 /\ \A o \in Ids \ {item.id} :
                      items'[o] = items[o] /\ versions'[o] = versions[o]
            /\ backend = "dynamodb" =>
                 /\ StripKeys(GetCurrentVersionWithKeys(table', item.id)) = item
                 /\ RecordsOf(table', item.id) = {WithKeys(item, "true")}
                 /\ table' \ RecordsOf(table', item.id) = table]_vars

C19_Witness ==
  \E p \in Procs :
    /\ backend = "dynamodb" /\ pc[p] = "done" /\ call[p].op = "createItem"
    /\ GetItem(call[p].id) = call[p].result
    /\ \E o \in StoredIds : o # call[p].id /\ StoredVersions(o) = 2

\* ----------------------------------------------------- listItemsHandler
StatusEnum == {"draft", "review", "approved", "archived"}

\* ListItemsQuerySchema.safeParse succeeds; nextToken may be any string
ValidQuery(query) ==
  /\ "limit" \in DOMAIN query => query.limit \in 1..MaxQueryLimit
  /\ "offset" \in DOMAIN query => query.offset >= 0
  /\ "subject" \in DOMAIN query => query.subject # ""
  /\ "status" \in DOMAIN query => query.status \in StatusEnum

ListItemsHandler(order, query) ==
  IF ~ValidQuery(query)
    THEN [statusCode |-> 400]
    ELSE LET result == ListItems(order, query) IN
           IF result = Thrown
             THEN [statusCode |-> 500]
             ELSE [statusCode |-> 200, body |-> result]

\* continuation tokens that are not the encoding of a key
MalformedTokens == {<<"%%%">>, <<"b64", "{">>}

\* C20: a listItems request whose nextToken is malformed is answered by the
\* list handler with status 400, never with 500 (or 200).
C20_MalformedTokenIs400 ==
  \A o \in IndexOrders(table), q \in Limits, t \in MalformedTokens :
    ListItemsHandler(o, Spread(q, [nextToken |-> t])).statusCode = 400

\* --------------------------------------------------- transport handlers
\* a request is a record with an optional id and an optional body
ItemTypes == {"multiple-choice", "free-response", "essay"}
SecurityLevels == {"standard", "secure", "highly-secure"}
SchemaKeys == {"subject", "itemType", "difficulty", "content", "metadata", "securityLevel"}
SchemaMetadataKeys == {"author", "status", "tags"}

\* z.object(...) drops the keys its shape does not name
StripUnknown(obj, keys) == [k \in (DOMAIN obj) \cap keys |-> obj[k]]

SchemaParse(body) ==
  LET top == StripUnknown(body, SchemaKeys) IN
    [k \in DOMAIN top |->
       IF k = "content" THEN StripUnknown(top.content, ContentFields)
       ELSE IF k = "metadata" THEN StripUnknown(top.metadata, SchemaMetadataKeys)
       ELSE top[k]]

\* the checks UpdateItemSchema and CreateItemSchema share, on the keys present
ValidFields(body) ==
  /\ "subject" \in DOMAIN body => body.subject # ""
  /\ "itemType" \in DOMAIN body => body.itemType \in ItemTypes
  /\ "difficulty" \in DOMAIN body => body.difficulty \in 1..5
  /\ "securityLevel" \in DOMAIN body => body.securityLevel \in SecurityLevels
  /\ "content" \in DOMAIN body =>
       \A k \in (DOMAIN body.content) \cap {"question", "correctAnswer", "explanation"} :
         body.content[k] # ""
  /\ "metadata" \in DOMAIN body =>
       /\ "author" \in DOMAIN body.metadata => body.metadata.author # ""
       /\ "status" \in DOMAIN body.metadata => body.metadata.status \in StatusEnum

\* UpdateItemSchema.safeParse(body).success: every field optional
ValidUpdate(body) == ValidFields(body)

\* CreateItemSchema.safeParse(body).success: every field but options and
\* tags required
ValidCreate(body) ==
  /\ SchemaKeys \subseteq DOMAIN body
  /\ {"question", "correctAnswer", "explanation"} \subseteq DOMAIN body.content
  /\ {"author", "status"} \subseteq DOMAIN body.metadata
  /\ ValidFields(body)

\* validationResult.data of CreateItemSchema: tags defaults to []
CreateParse(body) ==
  LET data == SchemaParse(body) IN
    Spread(data, [metadata |-> Spread([tags |-> << >>], data.metadata)])

\* JSON.stringify(response.body)
Stringify(body) == <<"json", body>>

\* formatResponse
FormatResponse(response, isApiGateway) ==
  IF isApiGateway
    THEN [statusCode |-> response.statusCode,
          headers |-> [contentType |-> "application/json", allowOrigin |-> "*"],
          body |-> Stringify(response.body)]
    ELSE response

\* what a client reads as the body of a response
BodyOf(response) ==
  IF "headers" \in DOMAIN response THEN response.body[2] ELSE response.body

ErrorResponse(code, message, isApiGateway) ==
  FormatResponse([statusCode |-> code, body |-> [error |-> message]], isApiGateway)

\* the part of each handler after its store call has settled; outcome is the
\* item, null, or Thrown when the await rejected
CreateItemRespond(outcome, isApiGateway) ==
  IF outcome = Thrown THEN ErrorResponse(500, "Storage error", isApiGateway)
  ELSE FormatResponse([statusCode |-> 201, body |-> outcome], isApiGateway)

GetItemRespond(outcome, isApiGateway) ==
  IF outcome = Thrown THEN ErrorResponse(500, "Storage error", isApiGateway)
  ELSE IF outcome = Null THEN ErrorResponse(404, "Item not found", isApiGateway)
  ELSE FormatResponse([statusCode |-> 200, body |-> outcome], isApiGateway)

\* variant: the null result is not checked
UpdateItemRespond_NoNullCheck(outcome, isApiGateway) ==
  IF outcome = Thrown THEN ErrorResponse(500, "Storage error", isApiGateway)
  ELSE FormatResponse([statusCode |-> 200, body |-> outcome], isApiGateway)

UpdateItemRespond(outcome, isApiGateway) ==
  IF outcome = Thrown THEN ErrorResponse(500, "Storage error", isApiGateway)
  ELSE IF outcome = Null THEN ErrorResponse(404, "Item not found", isApiGateway)
  ELSE FormatResponse([statusCode |-> 200, body |-> outcome], isApiGateway)

\* createVersionHandler, as its tests and the interface description state it
CreateVersionRespond(outcome, isApiGateway) ==
  IF outcome = Thrown THEN ErrorResponse(500, "Storage error", isApiGateway)
  ELSE IF outcome = Null THEN ErrorResponse(404, "Item not found", isApiGateway)
  ELSE FormatResponse([statusCode |-> 201, body |-> outcome], isApiGateway)

GetItemHandler(req, isApiGateway) ==
  IF "id" \notin DOMAIN req
    THEN ErrorResponse(400, "Item ID is required", isApiGateway)
    ELSE GetItemRespond(GetItem(req.id), isApiGateway)

\* a handler returns 400 before any store call
Rejected(p, handler, message) ==
  /\ ~InFlight(p)
  /\ Returned(p, [op |-> "rejected", handler |-> handler, error |-> message])
  /\ UNCHANGED <<backend, clock, memVars, dynVars, hist>>

\* storage.createItem / updateItem / createVersion of the selected backend
StoreCreateItem(p, data) == MemCreateItem(p, data) \/ DynCreateItem(p, data)
StoreUpdateItem(p, id, data) == MemUpdateItem(p, id, data) \/ DynUpdateItemRead(p, id, data)
StoreCreateVersion(p, id) == MemCreateVersion(p, id) \/ DynCreateVersionRead(p, id)

CreateItemHandler(p, req) ==
  IF "body" \notin DOMAIN req
    THEN Rejected(p, "createItem", "Request body is required")
  ELSE IF ~ValidCreate(req.body)
    THEN Rejected(p, "createItem", "Validation failed")
  ELSE StoreCreateItem(p, CreateParse(req.body))

\* variant: the body is applied before it is validated
UpdateItemHandler_ValidatesLate(p, req) ==
  IF "id" \notin DOMAIN req
    THEN Rejected(p, "updateItem", "Item ID is required")
  ELSE IF "body" \notin DOMAIN req \/ DOMAIN req.body = {}
    THEN Rejected(p, "updateItem",
                  "Request body is required with at least one field to update")
  ELSE IF ~ValidUpdate(req.body)
    THEN /\ ~InFlight(p)
         /\ Returned(p, [op |-> "rejected", handler |-> "updateItem",
                         error |-> "Validation failed"])
         /\ items' = [items EXCEPT ![req.id] =
                        IF @ = Null THEN @ ELSE Spread(@, SchemaParse(req.body))]
         /\ table' = {Spread(r, IF r.id = req.id THEN SchemaParse(req.body) ELSE << >>) :
                        r \in table}
         /\ UNCHANGED <<backend, clock, versions, hist>>
  ELSE StoreUpdateItem(p, req.id, SchemaParse(req.body))

UpdateItemHandler(p, req) ==
  IF "id" \notin DOMAIN req
    THEN Rejected(p, "updateItem", "Item ID is required")
  ELSE IF "body" \notin DOMAIN req \/ DOMAIN req.body = {}
    THEN Rejected(p, "updateItem",
                  "Request body is required with at least one field to update")
  ELSE IF ~ValidUpdate(req.body)
    THEN Rejected(p, "updateItem", "Validation failed")
  ELSE StoreUpdateItem(p, req.id, SchemaParse(req.body))

\* createVersionHandler, as its tests and the interface description state it
CreateVersionHandler(p, req) ==
  IF "id" \notin DOMAIN req
    THEN Rejected(p, "createVersion", "Item ID is required")
    ELSE StoreCreateVersion(p, req.id)

\* the response of the handler whose store call c has settled
HandlerResponse(c, isApiGateway) ==
  IF c.op = "rejected" THEN ErrorResponse(400, c.error, isApiGateway)
  ELSE IF c.op = "createItem" THEN CreateItemRespond(c.result, isApiGateway)
  ELSE IF c.op = "updateItem" THEN UpdateItemRespond(c.result, isApiGateway)
  ELSE CreateVersionRespond(c.result, isApiGateway)

\* the requests callers send
CreateBodies ==
  CreateRequests \cup {[subject |-> "AP Biology"], Spread(PayloadBio, [difficulty |-> 9])}
UpdateBodies == UpdateRequests \cup {<< >>, [difficulty |-> 9]}
CreateHandlerRequests == {[body |-> b] : b \in CreateBodies} \cup {<< >>}
UpdateHandlerRequests ==
  {[id |-> i, body |-> b] : i \in Ids, b \in UpdateBodies}
    \cup {[id |-> i] : i \in Ids} \cup {[body |-> UpdStatus]}
IdRequests == {[id |-> i] : i \in Ids} \cup {<< >>}

\* one caller at a time sending requests to the handlers, either backend
NextHandlers ==
  \/ \E req \in CreateHandlerRequests : CreateItemHandler(Caller, req)
  \/ \E req \in UpdateHandlerRequests : UpdateItemHandler(Caller, req)
  \/ \E req \in IdRequests : CreateVersionHandler(Caller, req)
  \/ DynUpdateItemCompute(Caller)
  \/ DynUpdateItemDemote(Caller)
  \/ DynUpdateItemPromote(Caller)
  \/ DynCreateVersionCompute(Caller)
  \/ DynCreateVersionDemote(Caller)
  \/ DynCreateVersionPromote(Caller)
  \/ DynPutFails(Caller)

SpecHandlers == Init /\ [][NextHandlers]_vars

\* ------------------------------------------------- handler properties
TransportModes == BOOLEAN

Settled(p) == pc[p] = "done" /\ call[p].op \in {"createItem", "updateItem", "createVersion"}

SuccessCode(op) == IF op \in {"createItem", "createVersion"} THEN 201 ELSE 200

\* the claimed mapping from a store outcome to a response
ExpectedOutcome(response, op, outcome) ==
  IF outcome = Thrown THEN response.statusCode = 500
  ELSE IF outcome = Null
    THEN /\ response.statusCode = 404
         /\ BodyOf(response) = [error |-> "Item not found"]
  ELSE /\ response.statusCode = SuccessCode(op)
       /\ BodyOf(response) = outcome

\* C21: in both transport modes every handler answers 404 with error "Item
\* not found" when getItem, updateItem or createVersion returned null, 500
\* when the store threw, 201 for a successful create or createVersion and
\* 200 for a successful get, update or list, with the same status and body
\* in the two modes.
C21_OutcomeToStatusUniform ==
  \A api \in TransportModes :
    /\ Settled(Caller) =>
         /\ ExpectedOutcome(HandlerResponse(call[Caller], api), call[Caller].op,
                            call[Caller].result)
         /\ BodyOf(HandlerResponse(call[Caller], api))
              = HandlerResponse(call[Caller], FALSE).body
    /\ \A id \in Ids :
         ExpectedOutcome(GetItemHandler([id |-> id], api), "getItem", GetItem(id))
    /\ \A o \in IndexOrders(table), q \in Limits :
         LET response == FormatResponse(ListItemsHandler(o, q), api) IN
           /\ response.statusCode = 200
           /\ BodyOf(response) = ListItems(o, q)

\* updateItem of an unknown id has returned null to its handler
C21_Witness ==
  /\ Settled(Caller)
  /\ call[Caller].op = "updateItem"
  /\ call[Caller].result = Null
  /\ StoredIds # {}

\* list queries the schema refuses
InvalidQueries ==
  {[limit |-> 0], [limit |-> MaxQueryLimit + 1], [offset |-> -1], [status |-> "bogus"],
   [subject |-> ""]}

\* C22: a handler that answers 400 (missing id, missing or empty body,
\* schema violation, limit outside 1..100, negative offset, status outside
\* the allowed set) has not invoked its store operation: the step that
\* produces the 400 leaves the stored state unchanged, and the list handler
\* answers 400 without reading the store (even a token the store would
\* throw on is not looked at).
C22_RejectedRequestLeavesStore ==
  /\ [](\A o \in IndexOrders(table), q \in InvalidQueries, t \in MalformedTokens, api \in TransportModes :
         /\ ListItemsHandler(o, q).statusCode = 400
         /\ ListItemsHandler(o, Spread(q, [nextToken |-> t])).statusCode = 400
         /\ GetItemHandler(<< >>, api).statusCode = 400)
  /\ [][\A api \in TransportModes :
          (call'[Caller].op = "rejected" /\ HandlerResponse(call'[Caller], api).statusCode = 400)
            => UNCHANGED <<items, versions, table, clock>>]_vars

\* a schema-violating update of a stored id has been answered 400
C22_Witness ==
  /\ pc[Caller] = "done"
  /\ call[Caller].op = "rejected"
  /\ call[Caller].handler = "updateItem"
  /\ call[Caller].error = "Validation failed"
  /\ StoredIds = Ids

\* ------------------------------------------------ in-memory listing
Offsets == {[offset |-> n] : n \in 0..MaxIds} \cup {<< >>}

OffsetQueries == {Spread(Spread(f, l), o) : f \in Filters \cup {<< >>}, l \in Limits, o \in Offsets}

\* the latest items matching the filters of query, in the store's order
Matching(query) == LET M(item) == Matches(item, query) IN SelectSeq(MemValues(MaxIds), M)

\* positions offset .. offset+limit-1 of seq
Positions(seq, offset, limit) ==
  [i \in 1..(IF Len(seq) <= offset THEN 0 ELSE Min(limit, Len(seq) - offset)) |->
     seq[offset + i]]

\* C23: on the in-memory backend listItems returns total equal to the
\* number of latest items matching the filters, whatever limit and offset
\* are, its page is the matching items at positions offset .. offset+limit-1
\* (limit 10 and offset 0 when absent), and pages taken with offset advanced
\* by limit concatenate to the filtered sequence.
C23_MemoryTotalAndPage ==
  backend = "memory" =>
    \A q \in OffsetQueries :
      LET r == MemListItems(q)
          limit == IF "limit" \in DOMAIN q THEN q.limit ELSE DefaultLimit
          offset == IF "offset" \in DOMAIN q THEN q.offset ELSE 0
      IN /\ r.total = Len(Matching(q))
         /\ r.items = Positions(Matching(q), offset, limit)
         /\ MemTraverseByOffset(q, 0, Len(Matching(q)) + 1) = Matching(q)

\* a draft item and an approved one: a page shorter than the total, a page
\* past the end, and a filter that drops an item
C23_Witness ==
  /\ backend = "memory"
  /\ MemIds = Ids
  /\ Len(Matching([status |-> "draft"])) < Cardinality(MemIds)
  /\ Len(Matching([status |-> "draft"])) > 0
  /\ MemListItems([limit |-> 1]).total > Len(MemListItems([limit |-> 1]).items)
  /\ MemListItems([offset |-> MaxIds]).items = << >>

\* ------------------------------------------- in-memory concurrency
\* the callers whose updateItem / createVersion of id has completed
Writers(id) ==
  {p \in Procs : /\ pc[p] = "done"
                  /\ call[p].op \in {"updateItem", "createVersion"}
                  /\ call[p].id = id
                  /\ call[p].result \notin {Null, Thrown}}

\* C24: on the in-memory backend, when M updateItem/createVersion calls of
\* concurrent callers on the same existing id have all completed, the id's
\* version has grown by exactly M, the calls returned pairwise distinct
\* version numbers, and the audit trail holds one record per call.
C24_MemoryNoLostUpdate ==
  backend = "memory" =>
    \A id \in MemIds :
      LET M == Cardinality(Writers(id)) IN
        /\ MemGetItem(id).metadata.version = 1 + M
        /\ \A p, q \in Writers(id) :
             p # q => call[p].result.metadata.version # call[q].result.metadata.version
        /\ Len(MemGetAuditTrail(id)) = 1 + M
        /\ \A p \in Writers(id) :
             \E i \in 1..Len(MemGetAuditTrail(id)) : MemGetAuditTrail(id)[i] = call[p].result

\* two callers have written the same id
C24_Witness ==
  /\ backend = "memory"
  /\ \E id \in MemIds :
       /\ Cardinality(Writers(id)) >= 2
       /\ \E p, q \in Writers(id) : call[p].op = "updateItem" /\ call[q].op = "createVersion"

\* --------------------------------------------- durable write failures
\* the caller's updateItem / createVersion has ended with a backend error
FailedWrite(p) ==
  /\ backend = "dynamodb"
  /\ pc[p] = "done"
  /\ call[p].op \in {"updateItem", "createVersion"}
  /\ call[p].result = Thrown

\* C25: when an updateItem or createVersion of the durable backend ends
\* with a backend error on either of its two writes, the stored state is as
\* before the call: the record it read is stored unchanged, still carrying
\* the latest marker it had, no newer version exists, and the item is still
\* returned by listItems.
C25_FailedWriteLeavesStateAsBefore ==
  FailedWrite(Caller) =>
    LET before == call[Caller].currentWithKeys IN
      /\ before \in table
      /\ \A r \in RecordsOf(table, before.id) : r.version <= before.version
      /\ before.latestVersion = "true" =>
           \A o \in IndexOrders(table) :
             \E i \in 1..Len(DynListItems(o, << >>).items) :
               DynListItems(o, << >>).items[i] = StripKeys(before)

\* C26: on the durable backend getItem never answers not-found for an id
\* that has a stored version: between the demote and the promote write of
\* an update, after an update that failed between them, and under any
\* interleaving of concurrent writers it returns the record of the highest
\* stored version, whatever the latest markers are.
C26_GetItemIgnoresMarkers ==
  backend = "dynamodb" =>
    \A id \in DynIds :
      /\ DynGetItem(id) # Null
      /\ \E r \in RecordsOf(table, id) :
           /\ r.version = MaxStored(id)
           /\ DynGetItem(id) = StripKeys(r)

\* an update has failed after its demote write: no record of the id is
\* marked latest
C26_Witness ==
  /\ backend = "dynamodb"
  /\ \E p \in Procs : FailedWrite(p) /\ LatestOf(call[p].id) = {}
                       /\ DynGetItem(call[p].id) # Null

\* ------------------------------------- listing while items are updated
\* a caller pages through listItems of the durable backend, sending each
\* nextToken back, while another caller creates and updates items
Lister == "p2"

InitTraverse ==
  /\ backend = "dynamodb"
  /\ clock = 0
  /\ items = [i \in Ids |-> Null]
  /\ versions = [i \in Ids |-> << >>]
  /\ table = {}
  /\ pc = [p \in Procs |-> "idle"]
  /\ call = [p \in Procs |-> NoCall]
  /\ hist = [i \in Ids |-> [calls |-> 0, raced |-> FALSE, failed |-> FALSE,
                            writer |-> "none"]]

IdsOf(page) == {page[i].id : i \in 1..Len(page)}

\* no writer is between its two writes and no two index entries (or the
\* start key and another entry) share a lastModified value, so the index
\* order and the resume position are determined
Undisturbed(query) ==
  /\ \A p \in Procs : ~BetweenWrites(p)
  /\ \A r, o \in LatestIndex(table) : r # o => r.lastModified # o.lastModified
  /\ "nextToken" \in DOMAIN query =>
       \A r \in LatestIndex(table) :
         KeyOf(r) # DecodeToken(query.nextToken)
           => r.lastModified # DecodeToken(query.nextToken).lastModified

\* one listItems call of the traversal
TraversePage(p, query, before) ==
  \E o \in IndexOrders(table) :
    LET r == DynListItems(o, query)
        c == [op |-> "listItems", query |-> [limit |-> query.limit],
              existing |-> before.existing,
              seen |-> before.seen \cup IdsOf(r.items),
              undisturbed |-> before.undisturbed /\ Undisturbed(query)]
    IN IF "nextToken" \in DOMAIN r
         THEN /\ pc' = [pc EXCEPT ![p] = "paging"]
              /\ call' = [call EXCEPT ![p] = Spread(c, [nextToken |-> r.nextToken])]
         ELSE /\ pc' = [pc EXCEPT ![p] = "listed"]
              /\ call' = [call EXCEPT ![p] = c]

TraverseFirstPage(p, query) ==
  /\ pc[p] = "idle"
  /\ TraversePage(p, query, [existing |-> DynIds, seen |-> {}, undisturbed |-> TRUE])
  /\ UNCHANGED <<backend, clock, memVars, table, hist>>

TraverseNextPage(p) ==
  /\ pc[p] = "paging"
  /\ TraversePage(p, Spread(call[p].query, [nextToken |-> call[p].nextToken]), call[p])
  /\ UNCHANGED <<backend, clock, memVars, table, hist>>

NextTraverse ==
  \/ \E d \in CreateRequests : DynCreateItem(Caller, d)
  \/ \E i \in Ids, d \in UpdateRequests : DynUpdateItemRead(Caller, i, d)
  \/ DynUpdateItemCompute(Caller)
  \/ DynUpdateItemDemote(Caller)
  \/ DynUpdateItemPromote(Caller)
  \/ \E q \in PageSizes : TraverseFirstPage(Lister, q)
  \/ TraverseNextPage(Lister)

SpecTraverse == InitTraverse /\ [][NextTraverse]_vars

\* C27: a paginated listItems traversal of the durable backend that runs
\* while another caller updates items returns every item that existed when
\* it started (items are never deleted): an update landing between two page
\* fetches does not make an existing item missing from all pages. Fetches
\* made inside an update's two-write window, or with equal lastModified
\* values in the index, are left out of the statement.
C27_TraversalSkipsNoItem ==
  (pc[Lister] = "listed" /\ call[Lister].undisturbed) =>
    call[Lister].existing \subseteq call[Lister].seen

\* ------------------------------------------------ monotone versions
\* the version getItem returns for id, 0 when it answers null
VersionRead(id) == IF GetItem(id) = Null THEN 0 ELSE GetItem(id).metadata.version

\* C28: for a fixed id the version returned by successive getItem calls
\* never decreases, on either backend and under any interleaving of
\* concurrent updateItem/createVersion calls; and once a call has returned
\* version v, every later getItem returns a version >= v.
C28_GetItemVersionMonotone ==
  /\ [](\A p \in Procs :
         (pc[p] = "done" /\ call[p].op \in {"updateItem", "createVersion"}
            /\ call[p].result \notin {Null, Thrown})
           => VersionRead(call[p].id) >= call[p].result.metadata.version)
  /\ [][\A id \in Ids : VersionRead(id)' >= VersionRead(id)]_vars

\* on the durable backend a call has returned version 2 while a racing
\* call that read version 1 is between its two writes
C28_Witness ==
  /\ backend = "dynamodb"
  /\ \E p, q \in Procs :
       /\ pc[p] = "done" /\ call[p].op = "updateItem"
       /\ call[p].result \notin {Null, Thrown}
       /\ call[p].result.metadata.version = 2
       /\ BetweenWrites(q) /\ call[q].id = call[p].id
       /\ call[q].currentWithKeys.version = 1
       /\ VersionRead(call[p].id) = 2

\* ------------------------------------------- in-memory mappings
\* C29: in every reachable state of the in-memory backend the items and
\* versions mappings have the same ids, every stored id's history is
\* non-empty, and the item held as latest equals (version and every field)
\* the last element of the id's history.
C29_MemoryMappingsAgree ==
  backend = "memory" =>
    \A id \in Ids :
      /\ MemGetItem(id) # Null <=> MemGetAuditTrail(id) # << >>
      /\ MemGetItem(id) # Null =>
           /\ Len(MemGetAuditTrail(id)) >= 1
           /\ MemGetItem(id) = MemGetAuditTrail(id)[Len(MemGetAuditTrail(id))]

\* an id holds several versions, the last written by createVersion, while
\* another id is in neither mapping
C29_Witness ==
  /\ backend = "memory"
  /\ MemIds # Ids
  /\ \E id \in MemIds :
       /\ Len(MemGetAuditTrail(id)) = MaxRecords
       /\ pc[Caller] = "done" /\ call[Caller].op = "createVersion"
       /\ call[Caller].result = MemGetItem(id)

\* ------------------------------------------- denormalized key fields
CarriesNoKeys(item) == (DOMAIN item) \cap DynamoKeys = {}

\* C30: in every record the durable backend stores, top-level version
\* equals metadata.version and top-level lastModified equals
\* metadata.lastModified, after any sequence or interleaving of createItem,
\* updateItem and createVersion (the demote rewrite included); and no item
\* returned by getItem or listItems carries a top-level version,
\* latestVersion or lastModified.
C30_KeyFieldsAgree ==
  backend = "dynamodb" =>
    /\ \A r \in table :
         /\ r.version = r.metadata.version
         /\ r.lastModified = r.metadata.lastModified
    /\ \A id \in DynIds : CarriesNoKeys(DynGetItem(id))
    /\ \A o \in IndexOrders(table), q \in DynQueries :
         \A i \in 1..Len(DynListItems(o, q).items) :
           CarriesNoKeys(DynListItems(o, q).items[i])

\* an update whose payload carried metadata.version and metadata.lastModified
\* has written version 2 over a demoted version 1
C30_Witness ==
  /\ backend = "dynamodb"
  /\ pc[Caller] = "done" /\ call[Caller].op = "updateItem"
  /\ HasKey(call[Caller].data, "metadata", "version")
  /\ call[Caller].result \notin {Null, Thrown}
  /\ \E r, o \in RecordsOf(table, call[Caller].id) :
       /\ r.version = 1 /\ r.latestVersion = "false"
       /\ o.version = 2 /\ o.latestVersion = "true" /\ o.lastModified = MaxClock

====
